---------------------------- MODULE Spec2Model ----------------------------
(***************************************************************************)
(* A model of src/parser.rs of sentry-release-parser: Version::parse,      *)
(* Release::parse, is_build_hash, Release::build_hash, the Display         *)
(* implementations and Release::describe.                                  *)
(*                                                                         *)
(* A string is a sequence of one-character strings.  A u64 is the sequence *)
(* of its decimal digits (numbers 0..9, no leading zeros), because the     *)
(* values of interest (twelve and more digits, and the values around 2^64) *)
(* do not fit TLC's integers; parsing checks the range against u64::MAX,   *)
(* so the width is the full 64 bits.                                       *)
(***************************************************************************)
EXTENDS Integers, Sequences, FiniteSets, TLC

VARIABLES input, pc, version, release, text, reparsed, hash

vars == <<input, pc, version, release, text, reparsed, hash>>

-----------------------------------------------------------------------------
(* Option and Result values                                                *)

None == [tag |-> "None"]

Some(x) == [tag |-> "Some", val |-> x]

Ok(x) == [tag |-> "Ok", val |-> x]

Err(e) == [tag |-> "Err", err |-> e]

NotRun == [tag |-> "NotRun"]

IsSome(o) == o.tag = "Some"

IsOk(r) == r.tag = "Ok"

-----------------------------------------------------------------------------
(* Characters and strings                                                  *)

Digits == <<"0", "1", "2", "3", "4", "5", "6", "7", "8", "9">>

Digit == {Digits[i] : i \in 1..10}

NonZeroDigit == Digit \ {"0"}

Lower == {"a", "b", "c", "d", "e", "f", "g", "h", "i", "j", "k", "l", "m",
          "n", "o", "p", "q", "r", "s", "t", "u", "v", "w", "x", "y", "z"}

Upper == {"A", "B", "C", "D", "E", "F", "G", "H", "I", "J", "K", "L", "M",
          "N", "O", "P", "Q", "R", "S", "T", "U", "V", "W", "X", "Y", "Z"}

\* [a-fA-F0-9] of HEX_REGEX
HexDigit == Digit \cup {"a", "b", "c", "d", "e", "f"}
                  \cup {"A", "B", "C", "D", "E", "F"}

\* [0-9a-zA-Z-] of VERSION_REGEX
IdentChar == Digit \cup Lower \cup Upper \cup {"-"}

\* [a-zA-Z-] of VERSION_REGEX
NonDigitIdentChar == Lower \cup Upper \cup {"-"}

\* the ASCII members of the White_Space property, which str::trim removes
Whitespace == {" ", "\t", "\n", "\f", "\r"}

Rep(c, n) == [i \in 1..n |-> c]

AllIn(s, S) == \A i \in 1..Len(s) : s[i] \in S

\* s[i..j-1]
Slice(s, i, j) == SubSeq(s, i, j - 1)

\* the end of the longest run of characters of S that starts at i
RunEnd(s, i, S) ==
    CHOOSE j \in i..(Len(s) + 1) :
        /\ j > Len(s) \/ s[j] \notin S
        /\ \A k \in i..(j - 1) : s[k] \in S

At(s, i, c) == i <= Len(s) /\ s[i] = c

-----------------------------------------------------------------------------
(* u64: str::parse::<u64> and the Display of a u64.  A value is the        *)
(* sequence of its decimal digits, each a number, without leading zeros.   *)

U64Max == <<1, 8, 4, 4, 6, 7, 4, 4, 0, 7, 3, 7, 0, 9, 5, 5, 1, 6, 1, 5>>

U64Zero == <<0>>

\* char::to_digit
DigitValue(c) == (CHOOSE i \in 1..10 : Digits[i] = c) - 1

\* a < b for values of one length
RECURSIVE ValueLess(_, _)
ValueLess(a, b) ==
    IF a = <<>> THEN FALSE
    ELSE IF Head(a) # Head(b) THEN Head(a) < Head(b)
    ELSE ValueLess(Tail(a), Tail(b))

\* the value of a digit string: leading zeros do not count ("000" is 0)
ValueOf(ds) ==
    LET z == RunEnd(ds, 1, {"0"})
    IN  IF z > Len(ds) THEN U64Zero
        ELSE [i \in 1..(Len(ds) - z + 1) |-> DigitValue(ds[z + i - 1])]

\* a faulty variant: the range is not checked, the digits are kept as the value
OverflowsNever(n) == FALSE

\* the accumulated value left the 64 bit range (checked_mul/checked_add fail)
Overflows(n) ==
    \/ Len(n) > Len(U64Max)
    \/ Len(n) = Len(U64Max) /\ ValueLess(U64Max, n)

\* str::parse::<u64>: an optional '+', then one or more digits, in range
ParseU64(s) ==
    LET ds == IF At(s, 1, "+") THEN Tail(s) ELSE s
    IN  IF ds = <<>> \/ ~AllIn(ds, Digit) THEN None
        ELSE IF Overflows(ValueOf(ds)) THEN None
        ELSE Some(ValueOf(ds))

\* Display of a u64: its decimal numeral
FormatU64(n) == [i \in 1..Len(n) |-> Digits[n[i] + 1]]

UnwrapOr(o, d) == IF IsSome(o) THEN o.val ELSE d

-----------------------------------------------------------------------------
(* is_build_hash                                                           *)

\* a faulty variant: a seven character short hash is accepted too
HashLengthsWithSeven == {7, 12, 16, 20, 32, 40, 64}

HashLengths == {12, 16, 20, 32, 40, 64}

\* HEX_REGEX  ^[a-fA-F0-9]+$
HexRegexIsMatch(s) == Len(s) >= 1 /\ AllIn(s, HexDigit)

IsBuildHash(s) ==
    IF Len(s) \in HashLengths THEN HexRegexIsMatch(s) ELSE FALSE

-----------------------------------------------------------------------------
(* VERSION_REGEX.  Every operator takes the position i of the next unread  *)
(* character and gives the position after its match, or 0 for no match.    *)
(* The pattern is anchored at both ends and what may follow a digit run    *)
(* or an identifier is never a character of that run, so a run is matched  *)
(* to its full length or the whole match fails.                            *)

\* 0|[1-9][0-9]*
NumericEnd(s, i) ==
    IF At(s, i, "0") THEN i + 1
    ELSE IF i <= Len(s) /\ s[i] \in NonZeroDigit THEN RunEnd(s, i + 1, Digit)
    ELSE 0

\* (?:\.(0|[1-9][0-9]*))? : the position after the group, i when it is skipped
DotNumericEnd(s, i) ==
    IF At(s, i, ".") /\ NumericEnd(s, i + 1) # 0
    THEN NumericEnd(s, i + 1) ELSE i

\* a faulty variant: digits with a leading zero are an identifier, [0-9a-zA-Z-]+
IsIdentifierWithLeadingZeros(x) == Len(x) >= 1 /\ AllIn(x, IdentChar)

\* 0|[1-9][0-9]*|[0-9]*[a-zA-Z-][0-9a-zA-Z-]* on the whole of x
IsIdentifier(x) ==
    \/ x = <<"0">>
    \/ Len(x) >= 1 /\ x[1] \in NonZeroDigit /\ AllIn(x, Digit)
    \/ /\ AllIn(x, IdentChar)
       /\ \E k \in 1..Len(x) : x[k] \in NonDigitIdentChar

\* one identifier of the pre-release
IdentifierEnd(s, i) ==
    LET j == RunEnd(s, i, IdentChar)
    IN  IF j > i /\ IsIdentifier(Slice(s, i, j)) THEN j ELSE 0

\* (?:\.(?:identifier))*
RECURSIVE DotIdentifiersEnd(_, _)
DotIdentifiersEnd(s, i) ==
    IF At(s, i, ".") /\ IdentifierEnd(s, i + 1) # 0
    THEN DotIdentifiersEnd(s, IdentifierEnd(s, i + 1)) ELSE i

\* (?P<prerelease>(?:-|[a-z])(?:identifier)?(?:\.(?:identifier))*)? :
\* the position after the group, i when it is skipped
PrereleaseEnd(s, i) ==
    IF i <= Len(s) /\ s[i] \in ({"-"} \cup Lower)
    THEN LET j == IdentifierEnd(s, i + 1)
         IN  DotIdentifiersEnd(s, IF j # 0 THEN j ELSE i + 1)
    ELSE i

\* (?:\.[0-9a-zA-Z-]+)*
RECURSIVE DotBuildPartsEnd(_, _)
DotBuildPartsEnd(s, i) ==
    IF At(s, i, ".") /\ RunEnd(s, i + 1, IdentChar) > i + 1
    THEN DotBuildPartsEnd(s, RunEnd(s, i + 1, IdentChar)) ELSE i

\* (?:\+(?P<build_code>[0-9a-zA-Z-]+(?:\.[0-9a-zA-Z-]+)*))? :
\* the position after the group, i when it is skipped
BuildCodeEnd(s, i) ==
    IF At(s, i, "+") /\ RunEnd(s, i + 1, IdentChar) > i + 1
    THEN DotBuildPartsEnd(s, RunEnd(s, i + 1, IdentChar)) ELSE i

\* VERSION_REGEX.captures: None, or the five groups (caps[1], caps.get(2..5))
VersionRegexCaptures(s) ==
    LET p1 == NumericEnd(s, 1)
        p2 == DotNumericEnd(s, p1)
        p3 == DotNumericEnd(s, p2)
        p4 == PrereleaseEnd(s, p3)
        p5 == BuildCodeEnd(s, p4)
    IN  IF p1 = 0 \/ p5 # Len(s) + 1 THEN None
        ELSE Some([major      |-> Slice(s, 1, p1),
                   minor      |-> IF p2 > p1 THEN Some(Slice(s, p1 + 1, p2))
                                  ELSE None,
                   patch      |-> IF p3 > p2 THEN Some(Slice(s, p2 + 1, p3))
                                  ELSE None,
                   prerelease |-> IF p4 > p3 THEN Some(Slice(s, p3, p4))
                                  ELSE None,
                   build_code |-> IF p5 > p4 THEN Some(Slice(s, p4 + 1, p5))
                                  ELSE None])

-----------------------------------------------------------------------------
(* Version                                                                 *)

\* caps.get(n).and_then(|x| x.as_str().parse().ok()).unwrap_or(0)
NumericField(group) ==
    IF IsSome(group) THEN UnwrapOr(ParseU64(group.val), U64Zero) ELSE U64Zero

\* a faulty variant: the count starts at 2
CountComponentsFromTwo(caps) ==
    2 + (IF IsSome(caps.minor) THEN 1 ELSE 0)
      + (IF IsSome(caps.patch) THEN 1 ELSE 0)

\* 1 + caps.get(2).map_or(0, |_| 1) + caps.get(3).map_or(0, |_| 1)
CountComponents(caps) ==
    1 + (IF IsSome(caps.minor) THEN 1 ELSE 0)
      + (IF IsSome(caps.patch) THEN 1 ELSE 0)

\* the pre field: the prerelease group without one leading '-'
StripDash(group) ==
    IF IsSome(group)
    THEN IF At(group.val, 1, "-") THEN Tail(group.val) ELSE group.val
    ELSE <<>>

\* Version::parse
VersionParse(s) ==
    LET m == VersionRegexCaptures(s)
    IN  IF ~IsSome(m) THEN Err("InvalidVersion")
        ELSE LET caps == m.val
             IN  Ok([raw        |-> s,
                     major      |-> UnwrapOr(ParseU64(caps.major), U64Zero),
                     minor      |-> NumericField(caps.minor),
                     patch      |-> NumericField(caps.patch),
                     pre        |-> StripDash(caps.prerelease),
                     build_code |-> UnwrapOr(caps.build_code, <<>>),
                     components |-> CountComponents(caps)])

\* Version::pre and Version::build_code: None for the empty string
NonEmpty(s) == IF s = <<>> THEN None ELSE Some(s)

VersionPre(v) == NonEmpty(v.pre)

VersionBuildCode(v) == NonEmpty(v.build_code)

\* what a formatter gives when it runs into unreachable!()
Panic == <<"unreachable!">>

\* Display of VersionDescription
VersionDescriptionFmt(v) ==
    CASE v.components = 3 ->
           FormatU64(v.major) \o <<".">> \o FormatU64(v.minor)
                              \o <<".">> \o FormatU64(v.patch)
      [] v.components = 2 ->
           FormatU64(v.major) \o <<".">> \o FormatU64(v.minor)
      [] v.components = 1 -> FormatU64(v.major)
      [] OTHER -> Panic

\* Display of Version
VersionFmt(v) ==
    LET d == VersionDescriptionFmt(v)
    IN  IF d = Panic THEN Panic
        ELSE d \o (IF IsSome(VersionPre(v)) THEN <<"-">> \o v.pre ELSE <<>>)
               \o (IF IsSome(VersionBuildCode(v))
                   THEN <<"+">> \o v.build_code ELSE <<>>)

-----------------------------------------------------------------------------
(* Release                                                                 *)

MaxReleaseLen == 250

RestrictedNames == {<<".">>, <<".", ".">>, <<"l", "a", "t", "e", "s", "t">>}

\* str::trim
Trim(s) ==
    LET a == RunEnd(s, 1, Whitespace)
        b == CHOOSE j \in 0..Len(s) :
                 /\ j = 0 \/ s[j] \notin Whitespace
                 /\ \A k \in (j + 1)..Len(s) : s[k] \in Whitespace
    IN  IF a > Len(s) THEN <<>> ELSE Slice(s, a, b + 1)

\* a faulty variant: the carriage return is forgotten, ^[^/\n]*\z
ValidReleaseRegexWithoutCR(s) ==
    \A i \in 1..Len(s) : s[i] \notin {"/", "\n"}

\* VALID_RELEASE_REGEX  ^[^/\r\n]*\z
ValidReleaseRegexIsMatch(s) ==
    \A i \in 1..Len(s) : s[i] \notin {"/", "\r", "\n"}


\* the characters of s
Chars(s) == {s[i] : i \in 1..Len(s)}

\* a faulty variant: the split is at the last '@', ^(.+)@([^@]*)$
ReleaseRegexSplitAtLast(s) ==
    LET ats == {i \in 2..Len(s) : s[i] = "@"}
        e == CHOOSE i \in ats : \A j \in ats : j <= i
    IN  IF ats # {}
        THEN Some([package     |-> Slice(s, 1, e),
                   version_raw |-> Slice(s, e + 1, Len(s) + 1)])
        ELSE None

\* RELEASE_REGEX  ^(@?[^@]+)@(.*?)$ : None, or the two groups.  The first
\* group takes the leading '@' when there is one, then the whole run of
\* other characters, which a '@' must follow; '.' matches all but a line feed.
ReleaseRegexCaptures(s) ==
    LET a == IF At(s, 1, "@") THEN 2 ELSE 1
        e == RunEnd(s, a, Chars(s) \ {"@"})
    IN  IF e > a /\ At(s, e, "@") /\ "\n" \notin Chars(Slice(s, e + 1, Len(s) + 1))
        THEN Some([package     |-> Slice(s, 1, e),
                   version_raw |-> Slice(s, e + 1, Len(s) + 1)])
        ELSE None

\* Result::ok
ResultOk(r) == IF IsOk(r) THEN Some(r.val) ELSE None

\* a faulty variant: the build hash test is left out
SplitVersionWithoutHashTest(version_raw) == ResultOk(VersionParse(version_raw))

\* the version field of a release that was split: Version::parse(..).ok()
\* unless version_raw is a build hash
SplitVersion(version_raw) ==
    IF ~IsBuildHash(version_raw) THEN ResultOk(VersionParse(version_raw))
    ELSE None

\* Release::parse
ReleaseParse(s) ==
    LET r == Trim(s)
        caps == ReleaseRegexCaptures(r)
    IN  IF Len(r) > MaxReleaseLen THEN Err("TooLong")
        ELSE IF r \in RestrictedNames THEN Err("RestrictedName")
        ELSE IF ~ValidReleaseRegexIsMatch(r) THEN Err("BadCharacters")
        ELSE IF IsSome(caps)
        THEN Ok([raw         |-> r,
                 package     |-> caps.val.package,
                 version_raw |-> caps.val.version_raw,
                 version     |-> SplitVersion(caps.val.version_raw)])
        ELSE Ok([raw |-> r, package |-> <<>>, version_raw |-> r,
                 version |-> None])

\* Release::package
ReleasePackage(r) == NonEmpty(r.package)

\* a faulty variant: the build code is returned without the build hash test
ReleaseBuildHashUnfiltered(r) ==
    LET code == IF IsSome(r.version) THEN VersionBuildCode(r.version.val)
                ELSE None
    IN  IF IsSome(code) THEN code
        ELSE IF IsBuildHash(r.version_raw) THEN Some(r.version_raw)
        ELSE None

\* Release::build_hash
ReleaseBuildHash(r) ==
    LET code == IF IsSome(r.version) THEN VersionBuildCode(r.version.val)
                ELSE None
    IN  IF IsSome(code) /\ IsBuildHash(code.val) THEN code
        ELSE IF IsBuildHash(r.version_raw) THEN Some(r.version_raw)
        ELSE None

\* Display of Release
ReleaseFmt(r) ==
    LET have_package == IsSome(ReleasePackage(r))
        at == IF have_package THEN <<"@">> ELSE <<>>
    IN  IF IsSome(r.version) /\ VersionFmt(r.version.val) = Panic THEN Panic
        ELSE (IF have_package THEN r.package ELSE <<>>)
             \o at
             \o (IF IsSome(r.version) THEN VersionFmt(r.version.val)
                 ELSE r.version_raw)

ShortHashLen == 12

\* a faulty variant: the hash is not cut
ShortHashUncut(h) == h

\* hash.get(..12).unwrap_or(hash)
ShortHash(h) == IF Len(h) >= ShortHashLen THEN SubSeq(h, 1, ShortHashLen) ELSE h

\* Display of ReleaseDescription (Release::describe)
ReleaseDescriptionFmt(r) ==
    LET bh == ReleaseBuildHash(r)
        short_hash == IF IsSome(bh) THEN Some(ShortHash(bh.val)) ELSE None
    IN  IF IsSome(r.version)
        THEN LET ver == r.version.val
             IN  IF VersionDescriptionFmt(ver) = Panic THEN Panic
                 ELSE VersionDescriptionFmt(ver)
                      \o (IF IsSome(VersionPre(ver)) THEN <<"-">> \o ver.pre
                          ELSE <<>>)
                      \o (IF IsSome(short_hash)
                          THEN <<" ", "(">> \o short_hash.val \o <<")">>
                          ELSE IF IsSome(VersionBuildCode(ver))
                          THEN <<" ", "(">> \o ver.build_code \o <<")">>
                          ELSE <<>>)
        ELSE IF IsSome(short_hash) THEN short_hash.val
        ELSE ReleaseFmt(r)

-----------------------------------------------------------------------------
(* The inputs the operations are applied to                                *)

\* every string over the alphabet A of length at most n
StrUpTo(A, n) == UNION {[1..k -> A] : k \in 0..n}

\* the concatenations a \o b and a \o b \o c over sets of strings
Cat2(X, Y) == {x \o y : x \in X, y \in Y}

Cat3(X, Y, Z) == {x \o y \o z : x \in X, y \in Y, z \in Z}

MaxVersionLen == 4

MaxDigits == 21

MaxReleaseInputLen == 4

MaxRun == 65

MaxHashInputLen == 65

PadSlack == 1

VersionAlphabet == {"0", "1", ".", "-", "+", "a", "A"}

\* 2^64, the least numeral out of range
U64MaxPlusOne == SubSeq(FormatU64(U64Max), 1, 19) \o <<"6">>

NumeralSamples ==
    {<<"0">>, <<"1">>, <<"0", "1">>, FormatU64(U64Max), U64MaxPlusOne,
     Rep("9", MaxDigits)}

Dot == {<<".">>}

CoreSamples ==
    NumeralSamples \cup Cat3(NumeralSamples, Dot, NumeralSamples)
    \cup Cat3(Cat3(NumeralSamples, Dot, NumeralSamples), Dot, NumeralSamples)

IdentifierSamples ==
    {<<>>, <<"0">>, <<"1">>, <<"0", "1">>, <<"a">>, <<"0", "a">>, <<"-">>}

PrereleaseSamples ==
    {<<>>} \cup
    Cat3({<<"-">>, <<"a">>, <<"A">>}, IdentifierSamples,
         {<<>>} \cup Cat2(Dot, IdentifierSamples))

BuildSamples ==
    {<<>>, <<"+">>, <<"+", "a">>, <<"+", "0", "1">>, <<"+", "a", ".">>,
     <<"+", "a", ".", "0", "1">>}

VersionInputs ==
    StrUpTo(VersionAlphabet, MaxVersionLen)
    \cup Cat3(CoreSamples, {<<>>, <<"-", "a">>}, {<<>>, <<"+", "a">>})
    \cup Cat3({<<"1">>, <<"1", ".", "0", ".", "1">>}, PrereleaseSamples,
              BuildSamples)

HexSamples == <<"0", "9", "a", "f", "A", "F">>

\* n hex digits, all six samples in turn
HexFill(n) == [i \in 1..n |-> HexSamples[(i % 6) + 1]]

NonHexSamples == {"g", "G", "-"}

\* hex strings of every length up to the bound, and the same with one
\* character that is no hex digit, at every place
HashInputs ==
    {HexFill(n) : n \in 0..MaxHashInputLen}
    \cup {[HexFill(np[1]) EXCEPT ![np[2]] = c] :
            np \in {x \in (1..MaxHashInputLen) \X (1..MaxHashInputLen) :
                      x[2] <= x[1]},
            c \in NonHexSamples}


ReleaseAlphabet == {"1", ".", "a", "@", "\n", "-"}

Blanks == {<<>>, <<" ">>, <<"\n">>}

PackageSamples ==
    {<<>>, <<"p", "@">>, <<"@", "p", "@">>, <<"p", " ", "q", "@">>,
     <<"@", "@">>, <<"p", "@", "@">>}

ReleaseVersionSamples ==
    Cat3({<<"1">>, <<"1", ".", "0">>, <<"1", ".", "0", ".", "1">>,
          <<"1", ".", "0", "1">>},
         {<<>>, <<"-">>, <<"-", "a">>, <<"a">>, <<"-", "a", ".", "1">>,
          <<"-", "0", "1">>},
         {<<>>, <<"+">>, <<"+", "a">>, <<"+", "a", ".", "0", "1">>})

RunPrefixes ==
    {<<>>, <<"p", "@">>, <<"p", "@", "1", "+">>,
     <<"p", "@", "1", ".", "0", "-", "a", "+">>, <<"p", "@", "1", ".">>}

RunChars == {"1", "9", "a", "F", "g"}

RunSuffixes == {<<>>, <<"-">>}

RunInputs ==
    {pre \o Rep(c, n) \o suf :
        pre \in RunPrefixes, c \in RunChars, n \in 1..MaxRun, suf \in RunSuffixes}

PadTails ==
    {<<>>, <<"@", "1">>, <<"@", "1", "a">>, <<"@", "1", "-", "a">>, <<"/">>,
     <<"\n", "p">>}

\* releases whose trimmed length is within PadSlack of the limit
PaddedInputs ==
    {lead \o Rep("p", MaxReleaseLen + d - Len(tail)) \o tail \o trail :
        lead \in Blanks, d \in (0 - PadSlack)..PadSlack, tail \in PadTails,
        trail \in Blanks}

NamedInputs ==
    Cat3(Blanks,
         {<<".">>, <<".", ".">>, <<".", ".", ".">>,
          <<"l", "a", "t", "e", "s", "t">>,
          <<"L", "a", "t", "e", "s", "t">>,
          <<"l", "a", "t", "e", "s", "t", "1">>,
          <<"l", "a", "t", "e", "s", "t", "@", "1">>,
          <<"a", "/", "b", "@", "1", ".", "0", ".", "0">>,
          <<"a", "\r", "b">>,
          <<"p", "@", "1", "\t", ".", "0">>},
         Blanks)

ReleaseInputs ==
    StrUpTo(ReleaseAlphabet, MaxReleaseInputLen)
    \cup Cat3(Blanks, Cat2(PackageSamples, ReleaseVersionSamples), Blanks)
    \cup RunInputs \cup PaddedInputs \cup NamedInputs

-----------------------------------------------------------------------------
(* The operations, each applied to an input or to the result of an         *)
(* earlier one                                                             *)

Start(inputs) ==
    /\ input \in inputs
    /\ pc = "start"
    /\ version = NotRun
    /\ release = NotRun
    /\ text = NotRun
    /\ reparsed = NotRun
    /\ hash = NotRun

\* Version::parse(input)
ParseVersion ==
    /\ pc = "start"
    /\ version' = VersionParse(input)
    /\ pc' = "version"
    /\ UNCHANGED <<input, release, text, reparsed, hash>>

\* version.to_string()
DisplayVersion ==
    /\ pc = "version"
    /\ IsOk(version)
    /\ text' = VersionFmt(version.val)
    /\ pc' = "version_text"
    /\ UNCHANGED <<input, version, release, reparsed, hash>>

\* Version::parse(&version.to_string())
ReparseVersion ==
    /\ pc = "version_text"
    /\ text # Panic
    /\ reparsed' = VersionParse(text)
    /\ pc' = "version_reparsed"
    /\ UNCHANGED <<input, version, release, text, hash>>

\* is_build_hash(input)
CheckBuildHash ==
    /\ pc = "start"
    /\ hash' = IsBuildHash(input)
    /\ pc' = "is_build_hash"
    /\ UNCHANGED <<input, version, release, text, reparsed>>

\* Release::parse(input)
ParseRelease ==
    /\ pc = "start"
    /\ release' = ReleaseParse(input)
    /\ pc' = "release"
    /\ UNCHANGED <<input, version, text, reparsed, hash>>

\* release.to_string()
DisplayRelease ==
    /\ pc = "release"
    /\ IsOk(release)
    /\ text' = ReleaseFmt(release.val)
    /\ pc' = "release_text"
    /\ UNCHANGED <<input, version, release, reparsed, hash>>

\* Release::parse(&release.to_string())
ReparseRelease ==
    /\ pc = "release_text"
    /\ text # Panic
    /\ reparsed' = ReleaseParse(text)
    /\ pc' = "release_reparsed"
    /\ UNCHANGED <<input, version, release, text, hash>>

\* release.describe().to_string()
DescribeRelease ==
    /\ pc = "release"
    /\ IsOk(release)
    /\ text' = ReleaseDescriptionFmt(release.val)
    /\ pc' = "described"
    /\ UNCHANGED <<input, version, release, reparsed, hash>>

\* release.build_hash()
BuildHash ==
    /\ pc = "release"
    /\ IsOk(release)
    /\ hash' = ReleaseBuildHash(release.val)
    /\ pc' = "build_hash"
    /\ UNCHANGED <<input, version, release, text, reparsed>>

Init == Start(ReleaseInputs)

Next ==
    \/ ParseRelease
    \/ DisplayRelease
    \/ ReparseRelease
    \/ DescribeRelease
    \/ BuildHash

Spec == Init /\ [][Next]_vars

InitVersion == Start(VersionInputs)

NextVersion == ParseVersion \/ DisplayVersion \/ ReparseVersion

SpecVersion == InitVersion /\ [][NextVersion]_vars

InitHash == Start(HashInputs)

NextHash == CheckBuildHash

SpecHash == InitHash /\ [][NextHash]_vars

-----------------------------------------------------------------------------
(* Notions the properties are stated with                                  *)

HexCharacters ==
    {"0", "1", "2", "3", "4", "5", "6", "7", "8", "9",
     "a", "b", "c", "d", "e", "f", "A", "B", "C", "D", "E", "F"}

\* a build hash as the specification describes it
LooksLikeHash(s) ==
    /\ Len(s) = 12 \/ Len(s) = 16 \/ Len(s) = 20 \/ Len(s) = 32
       \/ Len(s) = 40 \/ Len(s) = 64
    /\ \A i \in 1..Len(s) : s[i] \in HexCharacters

\* the places of s that hold no whitespace
Inked(s) == {i \in 1..Len(s) : s[i] \notin Whitespace}

\* s without the whitespace at its two ends
Trimmed(s) ==
    IF Inked(s) = {} THEN <<>>
    ELSE LET a == CHOOSE i \in Inked(s) : \A j \in Inked(s) : i <= j
             b == CHOOSE i \in Inked(s) : \A j \in Inked(s) : j <= i
         IN  SubSeq(s, a, b)

-----------------------------------------------------------------------------
(* C7: is_build_hash(s) is true exactly when the length of s is one of     *)
(* 12, 16, 20, 32, 40, 64 and every character of s is an ASCII hex digit;  *)
(* for every other length, 7 and 0 among them, it is false.                *)
C7_IsBuildHashIff ==
    pc = "is_build_hash" =>
        /\ hash = LooksLikeHash(input)
        /\ Len(input) \in {0, 7} => hash = FALSE

\* a hash of 40 characters was recognised
C7_Witness ==
    pc = "is_build_hash" /\ hash = TRUE /\ Len(input) = 40

-----------------------------------------------------------------------------
(* C3: Release::parse decides on the trimmed input t, in this order:       *)
(* TooLong when t is longer than 250, else RestrictedName when t is ".",   *)
(* ".." or "latest", else BadCharacters when t holds a '/', a carriage     *)
(* return or a line feed, and in every other case success with raw = t.    *)
C3_ParseOutcome ==
    pc = "release" =>
        LET t == Trimmed(input)
        IN  IF Len(t) > 250 THEN release = Err("TooLong")
            ELSE IF t \in {<<".">>, <<".", ".">>,
                           <<"l", "a", "t", "e", "s", "t">>}
            THEN release = Err("RestrictedName")
            ELSE IF \E i \in 1..Len(t) : t[i] \in {"/", "\r", "\n"}
            THEN release = Err("BadCharacters")
            ELSE IsOk(release) /\ release.val.raw = t

\* an input that is too long and holds a '/' as well is TooLong
C3_Witness ==
    /\ pc = "release"
    /\ release = Err("TooLong")
    /\ \E i \in 1..Len(input) : input[i] = "/"

-----------------------------------------------------------------------------
\* P: one or more characters other than '@', after at most one '@'
IsPackageText(p) ==
    \/ Len(p) >= 1 /\ \A i \in 1..Len(p) : p[i] # "@"
    \/ Len(p) >= 2 /\ p[1] = "@" /\ \A i \in 2..Len(p) : p[i] # "@"

\* the places k of t where t = P "@" V with P = t[1..k-1]
SplitPlaces(t) ==
    {k \in 2..Len(t) : t[k] = "@" /\ IsPackageText(SubSeq(t, 1, k - 1))}

(* C6: for an accepted trimmed release t that can be written P "@" V, P    *)
(* being one or more characters other than '@' with at most one '@' in     *)
(* front, the package is P, which ends before the first '@' of t that is   *)
(* not its first character, and version_raw is all that follows that '@';  *)
(* for any other t the package is absent and version_raw is t.             *)
C6_PackageSplit ==
    pc = "release" /\ IsOk(release) =>
        LET t == release.val.raw
            r == release.val
        IN  IF SplitPlaces(t) # {}
            THEN \E k \in SplitPlaces(t) :
                    /\ \A j \in 2..(k - 1) : t[j] # "@"
                    /\ ReleasePackage(r) = Some(SubSeq(t, 1, k - 1))
                    /\ r.version_raw = SubSeq(t, k + 1, Len(t))
                    /\ t = r.package \o <<"@">> \o r.version_raw
            ELSE /\ ReleasePackage(r) = None
                 /\ r.version_raw = t

\* a package with a '@' in front, and a version_raw that holds a '@'
C6_Witness ==
    /\ pc = "release"
    /\ IsOk(release)
    /\ release.val.package = <<"@", "a">>
    /\ \E i \in 1..Len(release.val.version_raw) :
          release.val.version_raw[i] = "@"

-----------------------------------------------------------------------------
(* C2, as stated: for every accepted release, with or without a package    *)
(* separator, version() is None exactly when version_raw is a build hash   *)
(* or Version::parse(version_raw) fails, and is the result of              *)
(* Version::parse(version_raw) otherwise.                                  *)
C2_VersionFromVersionRaw ==
    pc = "release" /\ IsOk(release) =>
        LET raw == release.val.version_raw
        IN  release.val.version =
                IF IsBuildHash(raw) \/ ~IsOk(VersionParse(raw)) THEN None
                ELSE Some(VersionParse(raw).val)

(* C2, amended: version() is None exactly when no package separator was    *)
(* found, or version_raw is a build hash, or Version::parse(version_raw)   *)
(* fails; otherwise it is the result of Version::parse(version_raw).       *)
C2_VersionOnlyWithPackage ==
    pc = "release" /\ IsOk(release) =>
        LET raw == release.val.version_raw
        IN  release.val.version =
                IF \/ ReleasePackage(release.val) = None
                   \/ LooksLikeHash(raw)
                   \/ ~IsOk(VersionParse(raw))
                THEN None
                ELSE Some(VersionParse(raw).val)

\* a bare version, which Version::parse accepts, was left unparsed
C2_Witness ==
    /\ pc = "release"
    /\ IsOk(release)
    /\ ReleasePackage(release.val) = None
    /\ IsOk(VersionParse(release.val.version_raw))
    /\ release.val.version = None

-----------------------------------------------------------------------------
(* C8: build_hash() of an accepted release is the build_code of the parsed *)
(* Version when there is one and its build_code is a build hash; else      *)
(* version_raw when the whole of it is a build hash; else None.  What it   *)
(* returns is a build hash, and a release package@H with H a build hash    *)
(* has no version and the build hash H.                                    *)
C8_BuildHash ==
    pc = "build_hash" =>
        LET r == release.val
        IN  /\ hash =
                 IF IsSome(r.version) /\ LooksLikeHash(r.version.val.build_code)
                 THEN Some(r.version.val.build_code)
                 ELSE IF LooksLikeHash(r.version_raw) THEN Some(r.version_raw)
                 ELSE None
            /\ IsSome(hash) => LooksLikeHash(hash.val)
            /\ IsSome(ReleasePackage(r)) /\ LooksLikeHash(r.version_raw) =>
                 r.version = None /\ hash = Some(r.version_raw)

\* the build code of a parsed version was returned
C8_Witness ==
    /\ pc = "build_hash"
    /\ IsSome(release.val.version)
    /\ hash = Some(release.val.version.val.build_code)
    /\ Len(release.val.version.val.pre) > 0

-----------------------------------------------------------------------------
First12(h) == [i \in 1..(IF Len(h) < 12 THEN Len(h) ELSE 12) |-> h[i]]

\* the present ones of major, minor and patch, joined by dots
NumericPart(v) ==
    FormatU64(v.major)
    \o (IF v.components >= 2 THEN <<".">> \o FormatU64(v.minor) ELSE <<>>)
    \o (IF v.components >= 3 THEN <<".">> \o FormatU64(v.patch) ELSE <<>>)

(* C9: describe() of an accepted release with a parsed Version is its      *)
(* present numeric components joined by dots, then "-" and pre when pre is *)
(* present, then " (h)" with h the first 12 characters of build_hash()     *)
(* when that is Some, else " (build_code)" when build metadata is present; *)
(* without a Version it is the first 12 characters of build_hash() when    *)
(* that is Some, and the canonical rendering of the release otherwise.     *)
(* A displayed hash is cut to 12 characters and comes without the package. *)
C9_Describe ==
    pc = "described" =>
        LET r == release.val
            bh == ReleaseBuildHash(r)
            v == r.version.val
            head == NumericPart(v)
                    \o (IF v.pre # <<>> THEN <<"-">> \o v.pre ELSE <<>>)
        IN  /\ IsSome(r.version) /\ IsSome(bh) =>
                 text = head \o <<" ", "(">> \o First12(bh.val) \o <<")">>
            /\ IsSome(r.version) /\ ~IsSome(bh) /\ v.build_code # <<>> =>
                 text = head \o <<" ", "(">> \o v.build_code \o <<")">>
            /\ IsSome(r.version) /\ ~IsSome(bh) /\ v.build_code = <<>> =>
                 text = head
            /\ ~IsSome(r.version) /\ IsSome(bh) => text = First12(bh.val)
            /\ ~IsSome(r.version) /\ ~IsSome(bh) => text = ReleaseFmt(r)
            /\ IsSome(bh) =>
                 /\ \A i \in 1..Len(text) : text[i] # "@"
                 /\ Cardinality({i \in 1..Len(text) : text[i] \in HexCharacters})
                      <= 12 + (IF IsSome(r.version) THEN Len(head) ELSE 0)

\* a build hash of more than 12 characters was shown after a version
C9_Witness ==
    /\ pc = "described"
    /\ IsSome(release.val.version)
    /\ IsSome(ReleaseBuildHash(release.val))
    /\ Len(release.val.version.val.build_code) > 12
    /\ release.val.version.val.pre # <<>>

-----------------------------------------------------------------------------
VersionFields(o) ==
    IF IsSome(o)
    THEN Some(<<o.val.major, o.val.minor, o.val.patch, o.val.pre,
                o.val.build_code, o.val.components>>)
    ELSE None

(* C1: when Release::parse accepts an input with result r, it accepts the  *)
(* canonical rendering of r too, and the result has the package of r, the  *)
(* parsed Version fields of r (none in both, or major, minor, patch, pre,  *)
(* build_code and components equal) and the build_hash of r.               *)
C1_RenderingReparses ==
    pc = "release_reparsed" =>
        /\ IsOk(reparsed)
        /\ ReleasePackage(reparsed.val) = ReleasePackage(release.val)
        /\ VersionFields(reparsed.val.version) = VersionFields(release.val.version)
        /\ ReleaseBuildHash(reparsed.val) = ReleaseBuildHash(release.val)

-----------------------------------------------------------------------------
(* The version grammar, stated on the text                                 *)

\* the k-th least member of a set of numbers
Kth(S, k) == CHOOSE x \in S : Cardinality({y \in S : y < x}) = k - 1

\* the pieces of x between its characters c
Pieces(x, c) ==
    LET seps == {i \in 1..Len(x) : x[i] = c}
        n == Cardinality(seps)
        edge(k) == IF k = 0 THEN 0 ELSE IF k = n + 1 THEN Len(x) + 1
                   ELSE Kth(seps, k)
    IN  [k \in 1..(n + 1) |-> SubSeq(x, edge(k - 1) + 1, edge(k) - 1)]

OnlyDigits(x) == \A i \in 1..Len(x) : x[i] \in Digit

OnlyIdentChars(x) == \A i \in 1..Len(x) : x[i] \in IdentChar

\* "0", or a digit run without a leading zero
IsNumeral(x) == Len(x) >= 1 /\ OnlyDigits(x) /\ (x[1] = "0" => Len(x) = 1)

\* major, .minor and .patch
IsCore(x) ==
    LET ps == Pieces(x, ".")
    IN  Len(ps) \in 1..3 /\ \A k \in 1..Len(ps) : IsNumeral(ps[k])

\* '+' and the build metadata
IsBuildMetadata(x) ==
    /\ Len(x) >= 1 /\ x[1] = "+"
    /\ LET ps == Pieces(Tail(x), ".")
       IN  \A k \in 1..Len(ps) : ps[k] # <<>> /\ OnlyIdentChars(ps[k])

\* a pre-release segment as C4 states it: a digit run without a leading
\* zero, or a run of [0-9A-Za-z-] with a character that is no digit or with
\* a leading zero
IsSegmentAsStated(p) ==
    /\ p # <<>> /\ OnlyIdentChars(p)
    /\ \/ OnlyDigits(p) /\ p[1] # "0"
       \/ \E i \in 1..Len(p) : p[i] \notin Digit
       \/ p[1] = "0"

\* a pre-release as C4 states it: '-' or a lowercase letter, then segments
\* between dots, the first one and every later one as above
IsPrereleaseAsStated(x) ==
    /\ Len(x) >= 1 /\ x[1] \in {"-"} \cup Lower
    /\ LET ps == Pieces(Tail(x), ".")
       IN  \A k \in 1..Len(ps) : IsSegmentAsStated(ps[k])

\* a pre-release segment of the code: "0", a digit run without a leading
\* zero, or a run of [0-9A-Za-z-] with a character that is no digit
IsSegment(p) ==
    /\ p # <<>> /\ OnlyIdentChars(p)
    /\ \/ IsNumeral(p)
       \/ \E i \in 1..Len(p) : p[i] \notin Digit

\* a pre-release of the code: the first segment may be empty
IsPrerelease(x) ==
    /\ Len(x) >= 1 /\ x[1] \in {"-"} \cup Lower
    /\ LET ps == Pieces(Tail(x), ".")
       IN  /\ ps[1] = <<>> \/ IsSegment(ps[1])
           /\ \A k \in 2..Len(ps) : IsSegment(ps[k])

\* the ways to read s as core, pre-release s[i+1..j] and build metadata
Readings(s, IsPre(_)) ==
    UNION {{<<i, j>> : j \in {j \in i..Len(s) :
                /\ i = j \/ IsPre(SubSeq(s, i + 1, j))
                /\ j = Len(s) \/ IsBuildMetadata(SubSeq(s, j + 1, Len(s)))}} :
           i \in {i \in 1..Len(s) : IsCore(SubSeq(s, 1, i))}}

WithoutLeadingDash(x) == IF x # <<>> /\ x[1] = "-" THEN Tail(x) ELSE x

-----------------------------------------------------------------------------
(* C4, as stated: Version::parse accepts a string exactly when the whole   *)
(* of it is major, optional .minor and .patch, an optional pre-release     *)
(* that begins with '-' or a lowercase letter and whose first and later    *)
(* segments are each non-empty and a digit run without leading zero or a   *)
(* run of [0-9A-Za-z-] with a non-digit or a leading zero, and optional    *)
(* '+' build metadata; every other string fails with InvalidVersion; pre   *)
(* is the pre-release text without one leading '-'.                        *)
C4_GrammarAsStated ==
    pc = "version" =>
        LET readings == Readings(input, IsPrereleaseAsStated)
        IN  /\ IsOk(version) <=> readings # {}
            /\ ~IsOk(version) => version = Err("InvalidVersion")
            /\ IsOk(version) =>
                 \A ij \in readings :
                    version.val.pre =
                        WithoutLeadingDash(SubSeq(input, ij[1] + 1, ij[2]))

(* C4, amended: the same, but the first segment of the pre-release may be  *)
(* empty, and a segment is "0", a digit run without leading zero, or a run *)
(* of [0-9A-Za-z-] with at least one non-digit: a run of digits with a     *)
(* leading zero is no segment.                                             *)
C4_Grammar ==
    pc = "version" =>
        LET readings == Readings(input, IsPrerelease)
        IN  /\ IsOk(version) <=> readings # {}
            /\ ~IsOk(version) => version = Err("InvalidVersion")
            /\ IsOk(version) =>
                 \A ij \in readings :
                    version.val.pre =
                        WithoutLeadingDash(SubSeq(input, ij[1] + 1, ij[2]))

\* a pre-release that is a letter alone was accepted, and the letter kept
C4_Witness ==
    /\ pc = "version"
    /\ IsOk(version)
    /\ version.val.pre = <<"a">>
    /\ input[Len(input)] = "a"

-----------------------------------------------------------------------------
(* The numeric fields of a version, read off the text                      *)

\* the digits and dots s begins with
LeadingNumbers(s) ==
    LET n == CHOOSE k \in 0..Len(s) :
                 /\ \A i \in 1..k : s[i] \in Digit \cup {"."}
                 /\ k = Len(s) \/ s[k + 1] \notin Digit \cup {"."}
    IN  SubSeq(s, 1, n)

\* the digit runs of major, minor and patch, as many as are written
WrittenFields(s) == Pieces(LeadingNumbers(s), ".")

\* what follows the numeric fields
AfterNumbers(s) == SubSeq(s, Len(LeadingNumbers(s)) + 1, Len(s))

\* the number a digit stands for
DigitNumber(c) == CHOOSE n \in 0..9 : Digits[n + 1] = c

\* the number a numeral without leading zeros denotes, digit by digit
NumberOf(d) == [i \in 1..Len(d) |-> DigitNumber(d[i])]

\* the numeral d, without leading zeros, denotes a number above 2^64 - 1
\* (18446744073709551615)
BeyondU64(d) ==
    \/ Len(d) > 20
    \/ /\ Len(d) = 20
       /\ \E k \in 1..20 :
             /\ \A i \in 1..(k - 1) : DigitNumber(d[i]) = U64Max[i]
             /\ DigitNumber(d[k]) > U64Max[k]

-----------------------------------------------------------------------------
(* C5: for every string Version::parse accepts, components() is 1, 2 or 3  *)
(* and is 1, plus 1 for the minor group, plus 1 for the patch group; the   *)
(* formatter never reaches unreachable!(); the canonical rendering is      *)
(* accepted by Version::parse and gives the same components().             *)
C5_Components ==
    /\ pc \in {"version", "version_text", "version_reparsed"} /\ IsOk(version) =>
          /\ version.val.components \in {1, 2, 3}
          /\ version.val.components = Len(WrittenFields(input))
    /\ pc = "version_text" => text # Panic
    /\ pc = "version_reparsed" =>
          /\ IsOk(reparsed)
          /\ reparsed.val.components = version.val.components

\* a version of three components whose rendering differs from the input
\* was parsed again
C5_Witness ==
    /\ pc = "version_reparsed"
    /\ version.val.components = 3
    /\ text # input

-----------------------------------------------------------------------------
\* the value stored for the k-th numeric field
StoredField(v, k) == IF k = 1 THEN v.major ELSE IF k = 2 THEN v.minor ELSE v.patch

(* C10: when the digit run of major, minor or patch denotes a number above *)
(* the unsigned 64 bit range, Version::parse still succeeds and stores 0   *)
(* for that field; the other numeric fields, pre and build_code are as     *)
(* parsed and the field still counts in components(); a number in range is *)
(* stored as it is.                                                        *)
C10_OverflowStoresZero ==
    pc = "version" /\ IsOk(version) =>
        LET fields == WrittenFields(input)
            rest == AfterNumbers(input)
            plus == {i \in 1..Len(rest) : rest[i] = "+"}
            cut == IF plus = {} THEN Len(rest) + 1
                   ELSE CHOOSE i \in plus : \A j \in plus : i <= j
        IN  /\ \A k \in 1..3 :
                 StoredField(version.val, k) =
                    IF k > Len(fields) \/ BeyondU64(fields[k]) THEN <<0>>
                    ELSE NumberOf(fields[k])
            /\ version.val.components = Len(fields)
            /\ version.val.pre = WithoutLeadingDash(SubSeq(rest, 1, cut - 1))
            /\ version.val.build_code = SubSeq(rest, cut + 1, Len(rest))

\* a minor beyond the range was stored as 0, beside a major and a patch in
\* range
C10_Witness ==
    /\ pc = "version"
    /\ IsOk(version)
    /\ Len(WrittenFields(input)) = 3
    /\ BeyondU64(WrittenFields(input)[2])
    /\ version.val.minor = <<0>>
    /\ version.val.major = U64Max
    /\ version.val.patch = <<1>>

====
